---- MODULE Spec2Model ----
(***************************************************************************)
(* Model of examples/chess.rs: the state/action codecs that connect the    *)
(* chess rules engine to the DQN learner, the reward and termination       *)
(* policies, and main(): load-or-train followed by the interactive loop.   *)
(*                                                                         *)
(* Numbers.  TLC integers are 32-bit signed, so a u64 is a tuple of four   *)
(* 16-bit limbs, least significant first, and a u32 a tuple of two.  An    *)
(* f32 that holds a bitboard half is the three-limb integer it rounds to;  *)
(* every other f32 of the model is integer valued and in TLC's range and   *)
(* is written as that integer (a negative one included).  Option<T> is a   *)
(* tuple: <<>> for None, <<x>> for Some(x).                                *)
(***************************************************************************)
EXTENDS Integers, Sequences, FiniteSets

VARIABLES
    pc,          \* position of main(): start, for, episode, save, play, gameover, panic
    fileExists,  \* result of cli.file.exists()
    trials,      \* cli.trials
    trainer,     \* the DQNAgentTrainer instance
    i,           \* index of the for loop over 0..trials
    agent,       \* ChessAgent of the running episode
    reward,      \* reward of the last training transition
    writes,      \* number of times the model file was written
    state,       \* position of the interactive loop
    input,       \* Option: the line read in the last loop iteration
    asked,       \* who was asked for a move in the last loop iteration
    mover,       \* who chose the last move that was applied
    out,         \* lines printed by the last loop iteration
    call         \* codec specification: the last conversion made and its result

vars == <<pc, fileExists, trials, trainer, i, agent, reward, writes,
          state, input, asked, mover, out, call>>

mainVars == <<pc, fileExists, trials, trainer, i, agent, reward, writes,
              state, input, asked, mover, out>>

----------------------------------------------------------------------------
(* Bounds of the model *)

\* largest halfmove clock a training episode is followed to
MaxHalfmoves == 102
\* largest halfmove clock the interactive loop is followed to
MaxPlayHalfmoves == 3
\* largest trial count given on the command line
MaxTrials == 2
\* longest line typed by the human
MaxLen == 3

----------------------------------------------------------------------------
(* Integers of fixed width *)

W16 == 2^16

U16 == 0 .. (W16 - 1)

RECURSIVE BitAnd(_, _)
BitAnd(a, b) ==
    IF a = 0 \/ b = 0 THEN 0
    ELSE (a % 2) * (b % 2) + 2 * BitAnd(a \div 2, b \div 2)

\* n & m on u64
And64(n, m) == [k \in 1..4 |-> BitAnd(n[k], m[k])]

\* n >> 32 on u64
Shr32(n) == <<n[3], n[4], 0, 0>>

\* n as u32, for n a u64: the low 32 bits
U64AsU32(n) == <<n[1], n[2]>>

\* the literal 0xFFFF_FFFF
MaskLow32 == <<W16 - 1, W16 - 1, 0, 0>>

\* split_u64 gone wrong: the high half shifted by 16 instead of 32
SplitShift16(n) ==
    <<U64AsU32(And64(n, MaskLow32)), U64AsU32(<<n[2], n[3], n[4], 0>>)>>

\* fn split_u64(n: u64) -> (u32, u32)
split_u64(n) ==
    <<U64AsU32(And64(n, MaskLow32)), U64AsU32(Shr32(n))>>

RECURSIVE BitLen(_)
BitLen(a) == IF a = 0 THEN 0 ELSE 1 + BitLen(a \div 2)

\* x as f32, for x a u32: round to nearest, ties to even, on a 24-bit
\* significand.  The result is the integer the f32 holds, as three limbs
\* (2^32 itself is reached from 0xFFFFFF80 upward).
U32AsF32(x) ==
    IF x[2] < 256 THEN <<x[1], x[2], 0>>
    ELSE LET q    == 2 ^ (BitLen(x[2]) - 8)
             r    == x[1] % q
             keep == x[1] - r
             up   == (2 * r > q) \/ (2 * r = q /\ (x[1] \div q) % 2 = 1)
             lo   == IF up THEN keep + q ELSE keep
             hi   == IF lo = W16 THEN x[2] + 1 ELSE x[2]
         IN  <<lo % W16, hi % W16, IF hi = W16 THEN 1 ELSE 0>>

----------------------------------------------------------------------------
(* Types of the rules engine *)

White == "White"
Black == "Black"
Colors == {White, Black}
Other(c) == IF c = White THEN Black ELSE White

Roles == {"Pawn", "Knight", "Bishop", "Rook", "Queen", "King"}

Squares == 0 .. 63

\* Outcome of a position: None, Draw, or Decisive with its winner
NoOutcome == <<>>
Draw == <<"Draw">>
Decisive(winner) == <<"Decisive", winner>>
Outcomes == {NoOutcome, Draw, Decisive(White), Decisive(Black)}

\* position of a role in the match of u32_to_role
RoleOrder == <<"Pawn", "Knight", "Bishop", "Rook", "Queen", "King">>

RoleIndex(r) == CHOOSE n \in 0..5 : RoleOrder[n + 1] = r

\* `role as u32` is the discriminant the rules engine's crate declares for
\* the role.  The declaration is not part of this file: both a declaration
\* that starts at Pawn = 0 and one that starts at Pawn = 1 are followed.
RoleBases == {0, 1}

RoleAsU32(base, r) == base + RoleIndex(r)

\* the result of a conversion that panics
Panic(msg) == [kind |-> "panic", msg |-> msg]

\* fn u32_to_role(n: u32) -> Role, as Option: <<>> stands for the panic
u32_to_role(n) == IF n \in 0..5 THEN <<RoleOrder[n + 1]>> ELSE <<>>

\* fn u32_to_square(n: u32) -> Square: Square::ALL[n], out of bounds from 64
u32_to_square(n) == IF n \in Squares THEN <<n>> ELSE <<>>

\* x as u32, for x an f32: truncation toward zero that saturates, so every
\* negative value gives 0 (the upper end, 2^32 - 1, is outside TLC's range)
F32AsU32(x) == IF x < 0 THEN 0 ELSE x

----------------------------------------------------------------------------
(* Action codec *)

NormalMove(role, from, capture, to, promotion) ==
    [kind |-> "Normal", role |-> role, from |-> from, capture |-> capture,
     to |-> to, promotion |-> promotion]

EnPassantMove(from, to) == [kind |-> "EnPassant", from |-> from, to |-> to]

CastleMove(king, rook) == [kind |-> "Castle", king |-> king, rook |-> rook]

PutMove(role, to) == [kind |-> "Put", role |-> role, to |-> to]

\* Some(role) => role as u32 as f32 + 1.0, None => 0.0
OptRoleAsF32(base, o) == IF o = <<>> THEN 0 ELSE RoleAsU32(base, o[1]) + 1

\* impl From<ChessAction> for [f32; 6]
ActionToArray(base, m) ==
    CASE m.kind = "Normal" ->
            [k \in 0..5 |->
                CASE k = 0 -> 0
                  [] k = 1 -> RoleAsU32(base, m.role)
                  [] k = 2 -> m.from
                  [] k = 3 -> OptRoleAsF32(base, m.capture)
                  [] k = 4 -> m.to
                  [] k = 5 -> OptRoleAsF32(base, m.promotion)]
      [] m.kind = "EnPassant" ->
            [k \in 0..5 |->
                CASE k = 0 -> 1
                  [] k = 2 -> m.from
                  [] k = 4 -> m.to
                  [] OTHER -> 0]
      [] m.kind = "Castle" ->
            [k \in 0..5 |->
                CASE k = 0 -> 2
                  [] k = 2 -> m.king
                  [] k = 4 -> m.rook
                  [] OTHER -> 0]
      [] m.kind = "Put" ->
            [k \in 0..5 |->
                CASE k = 0 -> 3
                  [] k = 1 -> RoleAsU32(base, m.role)
                  [] k = 4 -> m.to
                  [] OTHER -> 0]

\* if v[k] as u32 == 0 { None } else { Some(v[k] as u32 - 1) }
OptField(x) == IF F32AsU32(x) = 0 THEN <<>> ELSE <<F32AsU32(x) - 1>>

\* o.map(|x| u32_to_role(x as u32 - 1)).  For x = 0 the subtraction
\* overflows: a panic in a debug build, 0xFFFFFFFF and then the panic of
\* u32_to_role in a release build.  <<"panic">> stands for both.
MapToRole(o) ==
    IF o = <<>> THEN <<>>
    ELSE IF o[1] = 0 \/ u32_to_role(o[1] - 1) = <<>> THEN <<"panic">>
    ELSE <<u32_to_role(o[1] - 1)[1]>>

\* impl From<[f32; 6]> for ChessAction
ArrayToAction(v) ==
    LET d == F32AsU32(v[0])
    IN  CASE d = 0 ->
                LET role      == u32_to_role(F32AsU32(v[1]))
                    from      == u32_to_square(F32AsU32(v[2]))
                    capture   == MapToRole(OptField(v[3]))
                    to        == u32_to_square(F32AsU32(v[4]))
                    promotion == MapToRole(OptField(v[5]))
                IN  IF role = <<>> \/ capture = <<"panic">> \/ promotion = <<"panic">>
                        THEN Panic("Invalid role")
                    ELSE IF from = <<>> \/ to = <<>>
                        THEN Panic("Invalid square")
                    ELSE NormalMove(role[1], from[1], capture, to[1], promotion)
          [] d = 1 ->
                LET from == u32_to_square(F32AsU32(v[2]))
                    to   == u32_to_square(F32AsU32(v[4]))
                IN  IF from = <<>> \/ to = <<>> THEN Panic("Invalid square")
                    ELSE EnPassantMove(from[1], to[1])
          [] d = 2 ->
                LET king == u32_to_square(F32AsU32(v[2]))
                    rook == u32_to_square(F32AsU32(v[4]))
                IN  IF king = <<>> \/ rook = <<>> THEN Panic("Invalid square")
                    ELSE CastleMove(king[1], rook[1])
          [] d = 3 ->
                LET role == u32_to_role(F32AsU32(v[1]))
                    to   == u32_to_square(F32AsU32(v[4]))
                IN  IF role = <<>> THEN Panic("Invalid role")
                    ELSE IF to = <<>> THEN Panic("Invalid square")
                    ELSE PutMove(role[1], to[1])
          [] OTHER -> Panic("Invalid action")

----------------------------------------------------------------------------
(* State codec *)

\* the eight bitboards in the order of generate_from_chess_state!
BoardFields ==
    <<"pawns", "knights", "bishops", "rooks", "queens", "kings", "white", "black">>

\* EpSlot gone wrong: the raw square index, without the offset
EpSlotRaw(ep) == IF ep = <<>> THEN 0 ELSE ep[1]

\* ep_square(..).map(|x| x as u32 as f32 + 1.0).unwrap_or(0.0)
EpSlot(ep) == IF ep = <<>> THEN 0 ELSE ep[1] + 1

\* impl From<ChessState> for [f32; 21].  p.board maps each name of
\* BoardFields to its u64.
StateToArray(p) ==
    [k \in 0..20 |->
        CASE k < 16 ->
                U32AsF32(split_u64(p.board[BoardFields[(k \div 2) + 1]])[(k % 2) + 1])
          [] k = 16 -> IF p.turn = White THEN 0 ELSE 1
          [] k = 17 -> p.halfmoves
          [] k = 18 -> EpSlot(p.ep)
          [] k = 19 -> U32AsF32(split_u64(p.castling)[1])
          [] k = 20 -> U32AsF32(split_u64(p.castling)[2])]

----------------------------------------------------------------------------
(* Reward and termination *)

\* the clock value of ChessTermination
HalfmoveLimit == 100

\* Reward gone wrong: the two decisive cases exchanged
RewardSwapped(p) ==
    IF p.outcome # <<>> /\ p.outcome[1] = "Decisive"
        THEN IF p.outcome[2] = p.turn THEN 40 ELSE -20
    ELSE -10

\* ChessState::reward
Reward(p) ==
    IF p.outcome # <<>>
        THEN IF p.outcome[1] = "Decisive"
                THEN IF p.outcome[2] = p.turn THEN -20 ELSE 40
             ELSE -10
    ELSE -10

\* ShouldStop gone wrong: > in place of >=
ShouldStopLate(p) == p.outcome # <<>> \/ p.halfmoves > HalfmoveLimit

\* ChessTermination::should_stop
ShouldStop(p) == p.outcome # <<>> \/ p.halfmoves >= HalfmoveLimit

----------------------------------------------------------------------------
(* Rules engine, as main() and the trainer see it.  A position of the      *)
(* program flow is the engine's answers for it: side to move, halfmove     *)
(* clock, outcome and the list of legal moves.  Move 1 stands for a pawn   *)
(* move or capture (it zeroes the clock), move 2 for any other move.       *)

\* what m.to_string() gives for the two moves
Render(m) == IF m = 1 THEN <<"a">> ELSE <<"a", "a">>

Zeroing(m) == m = 1

\* a position with moves to play lists some of them
MoveLists == {<<1>>, <<2>>, <<1, 2>>}

\* the engine's verdict on a position with c to move: no outcome and some
\* legal moves, a draw by insufficient material with legal moves left,
\* stalemate, or checkmate of the side to move
EngineVerdicts(c) ==
    {<<NoOutcome, l>> : l \in MoveLists} \cup {<<Draw, l>> : l \in MoveLists}
        \cup {<<Draw, <<>>>>, <<Decisive(Other(c)), <<>>>>}

\* value of a binding that has not been made yet
NoPosition == [turn |-> "-", halfmoves |-> 0, outcome |-> NoOutcome, legal |-> <<>>]

\* Chess::default()
InitialPosition ==
    [turn |-> White, halfmoves |-> 0, outcome |-> NoOutcome, legal |-> <<1, 2>>]

\* p.play(m): the positions the engine may answer with.  The side to move
\* changes, the clock is zeroed or advanced; the clock is followed up to
\* cap.
Play(p, m, cap) ==
    IF ~Zeroing(m) /\ p.halfmoves >= cap THEN {}
    ELSE {[turn      |-> Other(p.turn),
           halfmoves |-> IF Zeroing(m) THEN 0 ELSE p.halfmoves + 1,
           outcome   |-> v[1],
           legal     |-> v[2]] : v \in EngineVerdicts(Other(p.turn))}

ListToSet(l) == {l[k] : k \in 1..Len(l)}

----------------------------------------------------------------------------
(* main(): load or train *)

NoTrainer == [created |-> FALSE, loaded |-> FALSE, trained |-> 0]

\* DQNAgentTrainer::new(0.9, 1e-3)
NewTrainer == [created |-> TRUE, loaded |-> FALSE, trained |-> 0]

\* LoopContinues gone wrong: the range 0..=trials
LoopContinuesInclusive(idx, n) == idx <= n

\* for _ in 0..cli.trials
LoopContinues(idx, n) == idx < n

Init ==
    /\ pc = "start"
    /\ fileExists \in BOOLEAN
    /\ trials \in 0..MaxTrials
    /\ trainer = NoTrainer
    /\ i = 0
    /\ agent = NoPosition
    /\ reward = 0
    /\ writes = 0
    /\ state = NoPosition
    /\ input = <<>>
    /\ asked = "none"
    /\ mover = "none"
    /\ out = <<>>
    /\ call = [fn |-> "none", base |-> 0, arg |-> 0, enc |-> 0, ret |-> 0]

playVars == <<state, input, asked, mover, out>>

\* the file exists: trainer.load(..).unwrap(), then play
LoadModel ==
    /\ pc = "start"
    /\ fileExists
    /\ \E ok \in BOOLEAN :
          IF ok
            THEN /\ trainer' = [NewTrainer EXCEPT !.loaded = TRUE]
                 /\ pc' = "play"
                 /\ state' = InitialPosition
            ELSE /\ trainer' = NewTrainer
                 /\ pc' = "panic"
                 /\ state' = state
    /\ UNCHANGED <<fileExists, trials, i, agent, reward, writes, input, asked,
                   mover, out, call>>

\* no file: a new trainer, and the for loop starts
BeginTraining ==
    /\ pc = "start"
    /\ ~fileExists
    /\ trainer' = NewTrainer
    /\ i' = 0
    /\ pc' = "for"
    /\ UNCHANGED <<fileExists, trials, agent, reward, writes, playVars, call>>

\* head of the for loop: the next episode's agent, or the loop is over
ForLoop ==
    /\ pc = "for"
    /\ IF LoopContinues(i, trials)
         THEN /\ agent' = InitialPosition
              /\ pc' = "episode"
         ELSE /\ agent' = agent
              /\ pc' = "save"
    /\ UNCHANGED <<fileExists, trials, trainer, i, reward, writes, playVars, call>>

\* one ply of trainer.train: the termination policy lets the episode go on,
\* the exploration strategy picks a legal move, the agent takes it and the
\* learner is updated with the reward of the new position
TrainStep ==
    /\ pc = "episode"
    /\ ~ShouldStop(agent)
    /\ \E m \in ListToSet(agent.legal) : \E s \in Play(agent, m, MaxHalfmoves) :
          /\ agent' = s
          /\ reward' = Reward(s)
    /\ UNCHANGED <<pc, fileExists, trials, trainer, i, writes, playVars, call>>

\* trainer.train returns: the termination policy stops the episode, and
\* the episode's agent goes out of scope
EpisodeEnd ==
    /\ pc = "episode"
    /\ ShouldStop(agent)
    /\ trainer' = [trainer EXCEPT !.trained = @ + 1]
    /\ i' = i + 1
    /\ agent' = NoPosition
    /\ reward' = 0
    /\ pc' = "for"
    /\ UNCHANGED <<fileExists, trials, writes, playVars, call>>

\* trainer.save(..).unwrap(), then play
SaveModel ==
    /\ pc = "save"
    /\ \E ok \in BOOLEAN :
          IF ok
            THEN /\ writes' = writes + 1
                 /\ pc' = "play"
                 /\ state' = InitialPosition
            ELSE /\ writes' = writes
                 /\ pc' = "panic"
                 /\ state' = state
    /\ UNCHANGED <<fileExists, trials, trainer, i, agent, reward, input, asked,
                   mover, out, call>>

----------------------------------------------------------------------------
(* main(): the interactive loop *)

Chars == {"a", " "}

IsSpace(c) == c = " "

RECURSIVE TrimStart(_)
TrimStart(s) ==
    IF s # <<>> /\ IsSpace(Head(s)) THEN TrimStart(Tail(s)) ELSE s

RECURSIVE TrimEnd(_)
TrimEnd(s) ==
    IF s # <<>> /\ IsSpace(s[Len(s)]) THEN TrimEnd(SubSeq(s, 1, Len(s) - 1)) ELSE s

\* str::trim
Trim(s) == TrimEnd(TrimStart(s))

\* the lines the human may type
Lines == UNION {[1..n -> Chars] : n \in 0..MaxLen}

\* Matches gone wrong: the rendering need only be a prefix of the text
MatchesPrefix(m, text) ==
    Len(text) >= Len(Render(m)) /\ SubSeq(text, 1, Len(Render(m))) = Render(m)

\* m.to_string() == input.trim()
Matches(m, text) == Render(m) = Trim(text)

\* legal_moves.iter().find(..): the first legal move that matches
Find(legal, text) ==
    LET hits == {k \in 1..Len(legal) : Matches(legal[k], text)}
    IN  IF hits = {} THEN <<>>
        ELSE <<legal[CHOOSE k \in hits : \A h \in hits : k <= h]>>

\* GameIsOver gone wrong: the check is made on the human's turn only
GameIsOverOnWhite(p) == p.legal = <<>> /\ p.turn = White

\* legal_moves.is_empty()
GameIsOver(p) == p.legal = <<>>

\* HumanToMove gone wrong: the colours exchanged
HumanToMoveBlack(p) == p.turn = Black

\* state.0.turn() == Color::White
HumanToMove(p) == p.turn = White

\* trainer.best_action(&state): the legal action of highest estimated
\* value, None when there is no legal move
BestAction(p) ==
    IF p.legal = <<>> THEN {<<>>} ELSE {<<m>> : m \in ListToSet(p.legal)}

BoardLine == <<"board">>

PlayedLine(c, m) == <<"played", c, Render(m)>>

\* "Invalid move; valid moves are:" and one line for each legal move
InvalidLines(legal) ==
    <<<<"invalid">>>> \o [k \in 1..Len(legal) |-> <<"move", Render(legal[k])>>]

\* the legal-move list is empty: "Game over", break
PlayGameOver ==
    /\ pc = "play"
    /\ GameIsOver(state)
    /\ out' = <<BoardLine, <<"gameover">>>>
    /\ pc' = "gameover"
    /\ input' = <<>>
    /\ asked' = "none"
    /\ UNCHANGED <<fileExists, trials, trainer, i, agent, reward, writes, state,
                   mover, call>>

\* an iteration on the human's turn: a line is read and matched
PlayHuman ==
    /\ pc = "play"
    /\ ~GameIsOver(state)
    /\ HumanToMove(state)
    /\ \E line \in Lines :
          LET action == Find(state.legal, line)
          IN  /\ input' = <<line>>
              /\ asked' = "human"
              /\ IF action = <<>>
                   THEN /\ out' = <<BoardLine>> \o InvalidLines(state.legal)
                        /\ UNCHANGED <<state, mover>>
                   ELSE /\ out' = <<BoardLine, PlayedLine(state.turn, action[1])>>
                        /\ state' \in Play(state, action[1], MaxPlayHalfmoves)
                        /\ mover' = "human"
    /\ UNCHANGED <<pc, fileExists, trials, trainer, i, agent, reward, writes, call>>

\* an iteration on the agent's turn: the learner is asked
PlayAgent ==
    /\ pc = "play"
    /\ ~GameIsOver(state)
    /\ ~HumanToMove(state)
    /\ input' = <<>>
    /\ asked' = "agent"
    /\ \E action \in BestAction(state) :
          IF action = <<>>
            THEN /\ pc' = "panic"
                 /\ out' = <<BoardLine, <<"No legal moves available">>>>
                 /\ UNCHANGED <<state, mover>>
            ELSE /\ pc' = pc
                 /\ out' = <<BoardLine, PlayedLine(state.turn, action[1])>>
                 /\ state' \in Play(state, action[1], MaxPlayHalfmoves)
                 /\ mover' = "agent"
    /\ UNCHANGED <<fileExists, trials, trainer, i, agent, reward, writes, call>>

Next ==
    \/ LoadModel
    \/ BeginTraining
    \/ ForLoop
    \/ TrainStep
    \/ EpisodeEnd
    \/ SaveModel
    \/ PlayGameOver
    \/ PlayHuman
    \/ PlayAgent

Spec == Init /\ [][Next]_vars

----------------------------------------------------------------------------
(* The conversions on their own: SpecCodec applies one of them to an       *)
(* input of its argument type and records the call.                        *)

SampleSquares == {0, 12, 28, 63}

OptRoles == {<<>>} \cup {<<r>> : r \in Roles}

Moves ==
    {NormalMove(r, f, c, t, p) :
        r \in Roles, f \in SampleSquares, c \in OptRoles, t \in SampleSquares,
        p \in OptRoles}
    \cup {EnPassantMove(f, t) : f \in SampleSquares, t \in SampleSquares}
    \cup {CastleMove(k, r) : k \in SampleSquares, r \in SampleSquares}
    \cup {PutMove(r, t) : r \in Roles, t \in SampleSquares}

\* action vectors as the network may give them
ActionVectors ==
    {[k \in 0..5 |-> t[k + 1]] :
        t \in (-1..5) \X {0, 5, 6} \X {0, 63, 64} \X {0, 1, 2, 7, 8} \X {0, 63}
              \X {0, 1, 2}}

LimbSamples == {0, 1, 255, 65280, 32768, 65535}

Masks == [1..4 -> LimbSamples]

\* 0x00FF00000000FF00, the pawns of Chess::default()
InitialPawns == <<65280, 0, 0, 255>>

\* 0x8100000000000081, the rooks of Chess::default()
InitialRooks == <<129, 0, 0, 33024>>

InitialBoard ==
    [pawns   |-> InitialPawns,
     knights |-> <<66, 0, 0, 16896>>,
     bishops |-> <<36, 0, 0, 9216>>,
     rooks   |-> InitialRooks,
     queens  |-> <<8, 0, 0, 2048>>,
     kings   |-> <<16, 0, 0, 4096>>,
     white   |-> <<65535, 0, 0, 0>>,
     black   |-> <<0, 0, 0, 65535>>]

\* positions as the state codec reads them
CodecPositions ==
    {[board     |-> [InitialBoard EXCEPT !.pawns = pw],
      turn      |-> c,
      halfmoves |-> h,
      ep        |-> e,
      castling  |-> cr] :
        pw \in {InitialPawns, <<0, 0, 0, 0>>, <<65535, 65535, 65535, 65535>>},
        c \in Colors, h \in {0, 1, HalfmoveLimit},
        e \in {<<>>} \cup {<<q>> : q \in Squares},
        cr \in {InitialRooks, <<0, 0, 0, 0>>}}

\* positions as reward and should_stop read them
PolicyPositions ==
    {[turn |-> c, halfmoves |-> h, outcome |-> o] :
        c \in Colors,
        h \in {0, HalfmoveLimit - 1, HalfmoveLimit, HalfmoveLimit + 1},
        o \in Outcomes}

Called(fn, base, arg, enc, ret) ==
    [fn |-> fn, base |-> base, arg |-> arg, enc |-> enc, ret |-> ret]

InitCodec ==
    /\ pc = "start"
    /\ fileExists = FALSE
    /\ trials = 0
    /\ trainer = NoTrainer
    /\ i = 0
    /\ agent = NoPosition
    /\ reward = 0
    /\ writes = 0
    /\ state = NoPosition
    /\ input = <<>>
    /\ asked = "none"
    /\ mover = "none"
    /\ out = <<>>
    /\ call = Called("none", 0, 0, 0, 0)

\* a move is encoded and the vector decoded again
CallRoundTrip ==
    /\ call.fn = "none"
    /\ \E base \in RoleBases : \E m \in Moves :
          call' = Called("roundtrip", base, m, ActionToArray(base, m),
                         ArrayToAction(ActionToArray(base, m)))
    /\ UNCHANGED mainVars

\* an action vector is decoded
CallDecode ==
    /\ call.fn = "none"
    /\ \E v \in ActionVectors : call' = Called("decode", 0, v, 0, ArrayToAction(v))
    /\ UNCHANGED mainVars

CallSplit ==
    /\ call.fn = "none"
    /\ \E n \in Masks : call' = Called("split", 0, n, 0, split_u64(n))
    /\ UNCHANGED mainVars

CallStateToArray ==
    /\ call.fn = "none"
    /\ \E p \in CodecPositions : call' = Called("state", 0, p, 0, StateToArray(p))
    /\ UNCHANGED mainVars

CallReward ==
    /\ call.fn = "none"
    /\ \E p \in PolicyPositions : call' = Called("reward", 0, p, 0, Reward(p))
    /\ UNCHANGED mainVars

CallShouldStop ==
    /\ call.fn = "none"
    /\ \E p \in PolicyPositions : call' = Called("should_stop", 0, p, 0, ShouldStop(p))
    /\ UNCHANGED mainVars

NextCodec ==
    \/ CallRoundTrip
    \/ CallDecode
    \/ CallSplit
    \/ CallStateToArray
    \/ CallReward
    \/ CallShouldStop

SpecCodec == InitCodec /\ [][NextCodec]_vars

----------------------------------------------------------------------------
(* Claims *)

\* C1: decoding the vector that encodes a move gives the move back, for
\* each of the four kinds, captures and promotions included.
C1_RoundTrip ==
    call.fn = "roundtrip" => call.ret = call.arg

\* C2: decoding fails with the invalid-action error exactly when element 0
\* of the vector is a value outside {0, 1, 2, 3}.
C2_InvalidDiscriminant ==
    call.fn = "decode" =>
        ((call.arg[0] \notin 0..3) <=> (call.ret = Panic("Invalid action")))

Decided(p) == p.outcome # NoOutcome

\* C3: an episode stops at a position exactly when its outcome is decided
\* or its halfmove clock has reached 100, and goes on by one more ply
\* exactly when neither holds.
C3_Termination ==
    pc = "episode" =>
        /\ (ENABLED EpisodeEnd) <=> (Decided(agent) \/ agent.halfmoves >= 100)
        /\ (ENABLED TrainStep) <=> ~(Decided(agent) \/ agent.halfmoves >= 100)

\* an episode stands at clock 100 with no outcome: the clock alone stops it
C3_Witness ==
    /\ pc = "episode"
    /\ agent.halfmoves = 100
    /\ ~Decided(agent)
    /\ ENABLED EpisodeEnd

\* C4: the reward of a position is -20 when the outcome is decisive and the
\* winner is the side to move, 40 when it is decisive and the winner is the
\* other side, -10 for a draw and for no outcome, and nothing else.
C4_ShapedReward ==
    call.fn = "reward" =>
        LET p == call.arg
            r == call.ret
        IN  /\ (p.outcome = Decisive(p.turn)) => r = -20
            /\ (p.outcome = Decisive(Other(p.turn))) => r = 40
            /\ (p.outcome \in {Draw, NoOutcome}) => r = -10
            /\ r \in {-20, 40, -10}

C4_Witness ==
    /\ call.fn = "reward"
    /\ call.arg.outcome = Decisive(call.arg.turn)
    /\ call.ret = -20

NoLegalRendering(p, line) ==
    \A k \in 1..Len(p.legal) : Render(p.legal[k]) # Trim(line)

HasPlayedLine(o) == \E k \in 1..Len(o) : o[k][1] = "played"

\* C5: on a human turn, a line whose trimmed text is the rendering of no
\* legal move makes the loop print the legal moves and nothing about a
\* move played, leaves the position as it is, and the next iteration is
\* the same human turn.
C5_UnmatchedInput ==
    [][ (pc = "play" /\ state.turn = White /\ input' # <<>>
            /\ NoLegalRendering(state, input'[1]))
        => /\ state' = state
           /\ mover' = mover
           /\ pc' = "play"
           /\ out' = <<BoardLine>> \o InvalidLines(state.legal)
           /\ ~HasPlayedLine(out')
           /\ asked' = "human"
           /\ state'.turn = White /\ state'.legal # <<>> ]_vars

\* the agent has moved, and the human's line, not empty once trimmed, is
\* answered with the list of legal moves
C5_Witness ==
    /\ pc = "play"
    /\ mover = "agent"
    /\ state.turn = White
    /\ input # <<>>
    /\ Trim(input[1]) # <<>>
    /\ NoLegalRendering(state, input[1])
    /\ out = <<BoardLine>> \o InvalidLines(state.legal)

\* C6: slot 18 of the state vector is the en-passant square's index plus
\* one, and 0 exactly when there is no en-passant square.
C6_EnPassantSlot ==
    call.fn = "state" =>
        LET ep   == call.arg.ep
            slot == call.ret[18]
        IN  /\ DOMAIN call.ret = 0..20
            /\ (slot = 0) <=> (ep = <<>>)
            /\ ep # <<>> => slot = ep[1] + 1

\* the en-passant square of index 0 is encoded as 1
C6_Witness ==
    /\ call.fn = "state"
    /\ call.arg.ep = <<0>>
    /\ call.ret[18] = 1

IsU32(x) == Len(x) = 2 /\ x[1] \in U16 /\ x[2] \in U16

\* C7: split gives the low and the high 32 bits of the mask, each a u32,
\* and low + high * 2^32 is the mask; the initial pawn mask gives 65280
\* and 16711680.
C7_Split ==
    call.fn = "split" =>
        LET n    == call.arg
            low  == call.ret[1]
            high == call.ret[2]
        IN  /\ IsU32(low) /\ IsU32(high)
            /\ low = <<n[1], n[2]>>
            /\ high = <<n[3], n[4]>>
            /\ <<low[1], low[2], high[1], high[2]>> = n
            /\ n = InitialPawns =>
                   /\ low[1] + W16 * low[2] = 65280
                   /\ high[1] + W16 * high[2] = 16711680

C7_Witness ==
    /\ call.fn = "split"
    /\ call.arg = InitialPawns
    /\ call.ret = <<<<65280, 0>>, <<0, 255>>>>

MoveApplied(o) == Len(o) >= 2 /\ o[2][1] = "played"

\* C8: in the loop a move is the human's only with White to move and the
\* agent's only with Black to move, every move applied changes the side to
\* move, and the moves applied alternate, the human's first.
C8_Alternation ==
    [][ pc = "play" =>
          /\ asked' = "human" => state.turn = White
          /\ asked' = "agent" => state.turn = Black
          /\ MoveApplied(out') =>
                /\ (mover' = "human") <=> (state.turn = White)
                /\ (mover' = "agent") <=> (state.turn = Black)
                /\ asked' = mover'
                /\ state'.turn = Other(state.turn)
                /\ mover' # mover
                /\ (mover = "none") => (mover' = "human" /\ state = InitialPosition)
          /\ ~MoveApplied(out') => (state' = state /\ mover' = mover) ]_vars

\* human, agent and human have moved
C8_Witness ==
    /\ pc = "play"
    /\ mover = "human"
    /\ state.turn = Black
    /\ state.halfmoves = 3

NoLegalMovesFailure(o) == \E k \in 1..Len(o) : o[k] = <<"No legal moves available">>

\* C9: nobody is asked for a move in a position without legal moves, the
\* agent's failure for want of a legal move does not happen, the loop ends
\* at once in such a position, and nothing happens after its end.
C9_EmptyChecked ==
    [][ /\ (pc = "play" /\ asked' # "none") => state.legal # <<>>
        /\ ~NoLegalMovesFailure(out')
        /\ (pc = "play" /\ state.legal = <<>>)
              => (pc' = "gameover" /\ state' = state /\ asked' = "none")
        /\ pc # "gameover" ]_vars

\* the loop has ended on the agent's turn, and the agent was not asked
C9_Witness ==
    /\ pc = "gameover"
    /\ state.turn = Black
    /\ state.legal = <<>>
    /\ mover = "human"
    /\ asked = "none"

StartupDone ==
    IF fileExists
        THEN trainer.loaded /\ trainer.trained = 0 /\ writes = 0
        ELSE ~trainer.loaded /\ trainer.trained = trials /\ writes = 1

\* C10: when the loop begins, either the file existed, the parameters were
\* loaded, no episode ran and nothing was written, or it did not exist,
\* `trials` episodes ran, each from the initial position and all on the one
\* trainer, and the parameters were written once, after the last episode
\* and before any move of the loop.
C10_Startup ==
    /\ [](pc \in {"play", "gameover"} => StartupDone)
    /\ [][ /\ (pc = "for" /\ pc' = "episode")
                => (agent' = InitialPosition /\ trainer' = trainer /\ i < trials)
           /\ trainer.created =>
                (trainer'.trained >= trainer.trained
                    /\ trainer'.loaded = trainer.loaded /\ trainer'.created)
           /\ (trainer'.trained # trainer.trained)
                => (pc = "episode" /\ trainer'.trained = trainer.trained + 1
                        /\ i' = i + 1)
           /\ (writes' # writes)
                => (pc = "save" /\ writes = 0 /\ trainer.trained = trials
                        /\ i = trials /\ state = NoPosition /\ mover = "none"
                        /\ ~fileExists) ]_vars

\* two episodes ran, the file was written once and the human has moved
C10_Witness ==
    /\ pc = "play"
    /\ ~fileExists
    /\ trials = 2
    /\ trainer.trained = 2
    /\ writes = 1
    /\ mover = "human"

====
